---- MODULE Spec2Model ----
(***************************************************************************)
(* Model of the dubbed-video player (src/components/DubbedPlayer.tsx):     *)
(* the timeline driver, segment scheduler, smart-pause controller, audio   *)
(* mixer and export controller of the DubbedPlayer component.              *)
(*                                                                         *)
(* Time is counted in units of 0.05 s, so that every constant of the code  *)
(* (0.3 s, 0.2 s, 0.5 s) and every time of the documented scenarios is an  *)
(* integer.  Segment indices are 0-based as in the code.                   *)
(*                                                                         *)
(* React: a state setter, the re-render and the effect that depends on the *)
(* state are taken as one step with the handler that called the setter.    *)
(* A closure created in a render sees that render's isPlaying; each voice  *)
(* therefore remembers the isPlaying of the render that started it.        *)
(***************************************************************************)
EXTENDS Integers, Sequences, FiniteSets, TLC

\* ---------------------------------------------------------------- bounds
\* length of the video, in 0.05 s units
Duration == 60
\* voices that exist at once (playing, or stopped with their ended event
\* still to be delivered)
MaxVoices == 2
\* dataavailable events delivered by one recorder
MaxChunks == 2
\* handleGenerate calls in flight at once
MaxRequests == 2
\* lines of a generated script
MaxScript == 2

\* ------------------------------------------------------- program constants
\* handleFileSelect's limit on file.size, in MB
SizeLimit == 20
\* the sizes of the data of a dataavailable event (0: no data)
ChunkSizes == {0, 1, 2}
\* time >= seg.startTime && time < seg.startTime + 0.3
TriggerWindow == 6
\* timeToNext <= 0.2
HoldLookAhead == 4
\* timeToNext > -0.5
HoldStaleness == 10
\* activeSegmentIndexRef.current = null
NoSegment == -1
\* current.startTime + 5: the caption of the last segment stays for 5 s
CaptionTail == 100
\* useState<string | null>(null): no caption; the text of segment i is
\* modelled by i, so the texts of distinct segments are distinct
NoCaption == -1

\* ------------------------------------------------------------------ inputs
\* segment lists (start times, ascending), as 0-based functions
SegOf(q) == [i \in 0..(Len(q) - 1) |-> q[i + 1]]

ScenarioSegments == SegOf(<<0, 40>>)

SegLists == {ScenarioSegments, SegOf(<<0, 5>>)}

\* two segments with the same start time (2 s)
TieSegments == SegOf(<<40, 40>>)

\* segments whose start times are 0.3 s and 0.35 s apart
PaceSegLists == {SegOf(<<0, 6>>), SegOf(<<1, 8>>)}

\* the positions the video reports in the first 0.6 s
PaceTimes == 0..12

\* the positions the video reports while its frames are captured
CaptureTimes == {0, 1, 30} \cup {Duration}

\* the positions the video transport reports or is sought to
Times == {0, 1, 5, 30, 36, 37, 38, 40, 41, 46, 49} \cup {Duration}

\* the positions the user seeks to
SeekTimes == {0, 1, 37, 41}

\* the MIME types MediaRecorder.isTypeSupported is asked about, here or in
\* the specification's preference order
MimeTypes ==
  {"video/mp4;codecs=avc1,mp4a.40.2", "video/mp4", "video/webm;codecs=vp9,opus",
   "video/webm;codecs=vp9", "video/webm"}

\* the types a runtime without mp4 recording reports as supported
SupportedHere ==
  {"video/webm;codecs=vp9,opus", "video/webm;codecs=vp9", "video/webm"}

\* no recorder, no blob: no type
NoType == "none"

\* the segment list of the capture checks
CaptureSegments == SegOf(<<0, 5>>)

\* segment lists sorted by startTime, for the caption resolution alone
CaptionSegLists ==
  {ScenarioSegments, SegOf(<<0>>), SegOf(<<20>>), SegOf(<<20, 20>>),
   SegOf(<<0, 40, 160>>), SegOf(<<20, 40, 40>>), SegOf(<<10, 120>>)}

\* the positions at which the caption is resolved
CaptionTimes == {0, 9, 10, 19, 20, 39, 40, 100, 109, 110, 119, 120, 139, 140,
                 159, 160, 219, 220, 259, 260}

\* the video files the user can select, and their sizes in MB
Files == {"a", "b", "big"}

FileSize == [f \in Files |-> IF f = "a" THEN 5 ELSE IF f = "b" THEN 20 ELSE 21]

NoFile == "none"

NoError == "none"

\* timestamps of script lines, split at ':' with each part through parseInt
Timestamps == {<<0, 1>>, <<1, 5>>, <<7>>}

\* texts of script lines, as sequences of characters
Texts == {<<>>, <<" ">>, <<" ", "h">>}

RawSegments == [timestamp : Timestamps, text : Texts]

RECURSIVE SeqsUpTo(_, _)
SeqsUpTo(S, n) ==
  IF n = 0
  THEN {<<>>}
  ELSE LET shorter == SeqsUpTo(S, n - 1)
       IN shorter \cup {Append(q, x) : q \in shorter, x \in S}

\* the scripts generateScriptSegments can return
Scripts == SeqsUpTo(RawSegments, MaxScript)

\* the scripts of the requests the App has in flight
AppScripts ==
  {<<>>,
   <<[timestamp |-> <<0, 1>>, text |-> <<" ", "h">>]>>,
   <<[timestamp |-> <<0, 1>>, text |-> <<" ">>],
     [timestamp |-> <<1, 5>>, text |-> <<" ", "h">>]>>}

VARIABLES
  segments,        \* props.segments: index -> startTime
  settled,         \* initAudio: the segments whose fetch/decode has settled
  buffers,         \* initAudio's local buffers: the indices decoded so far
  audioBuffers,    \* audioBuffersRef: the indices that have a decoded buffer
  loaded,          \* initAudio has settled every fetch/decode
  isPlaying,       \* useState isPlaying (play intent)
  vtime,           \* video.currentTime
  vpaused,         \* video.paused
  endedPending,    \* the video's ended event follows the final timeupdate
  tickPending,     \* a timeupdate for a seek or a pause is still to be delivered
  triggered,       \* triggeredSegmentsRef
  active,          \* activeSegmentIndexRef
  hold,            \* isVideoPausedForDubRef
  sources,         \* activeSourcesRef, in push order
  stale,           \* voices stopped by source.stop(), ended event not yet delivered
  isExporting,     \* useState isExporting
  isExportingRef,  \* isExportingRef
  recorder,        \* MediaRecorder state: "inactive", "recording", "stopping"
  endedListener,   \* onEndedHandler is registered on the video
  orphan,          \* a recorder started by a failed export is still recording
  recordedBlob,    \* useState recordedBlob is non-null
  currentTime,     \* useState currentTime
  currentCaption,  \* useState currentCaption: the segment whose text is shown
  exportProgress,  \* useState exportProgress, in percent
  supported,       \* the types MediaRecorder.isTypeSupported accepts
  mimeType,        \* handleStartExport's mimeType, while its recorder lives
  chunks,          \* handleStartExport's chunks array
  blobType,        \* recordedBlob.type
  blobChunks,      \* the chunks recordedBlob was built from
  rafPending,      \* requestAnimationFrame(draw) is outstanding
  delivery,        \* what the last handleShareOrSave of the artifact handed out
  passStarts,      \* history: voices started per segment since the last reset of the pass
  prevStarted,     \* history: segments whose voice started in the pass that the last seek ended
  scen,            \* history: how many ticks of the documented scenario have been delivered
  scenLog,         \* history: <<time, segment>> of the voices those ticks started
  expLog,          \* history: the segments whose voices the export pass has started, in order
  liveTriggered,   \* history: triggeredSet of a live pass from time 0 given the export pass's ticks
  liveLog,         \* history: the segments whose voices that live pass has started, in order
  delivered,       \* history: the dataavailable events of the recorder, in arrival order
  frameDrawn,      \* history: draw has drawn a frame since the last timeupdate
  appState,        \* App: useState appState
  videoFile,       \* App: useState videoFile
  videoPreviewUrl, \* App: useState videoPreviewUrl, named by the file it was created for
  dubbingSegments, \* App: useState dubbingSegments
  error,           \* App: useState error
  pending,         \* App: handleGenerate calls awaiting generateDubbingTimeline, per file
  shownFrom,       \* history: the file whose request produced dubbingSegments
  call,            \* one generateDubbingTimeline call, at its awaits
  audioLog         \* history: the audio requests of that call that have settled

progVars == <<segments, settled, buffers, audioBuffers, loaded, isPlaying, vtime, vpaused, endedPending,
              tickPending,
              triggered, active, hold, sources, stale, isExporting, isExportingRef,
              recorder, endedListener, orphan, recordedBlob,
              currentTime, currentCaption, exportProgress,
              supported, mimeType, chunks, blobType, blobChunks, rafPending,
              delivery>>

histVars == <<passStarts, prevStarted, scen, scenLog, expLog, liveTriggered, liveLog,
              delivered, frameDrawn>>

appVars == <<appState, videoFile, videoPreviewUrl, dubbingSegments, error, pending,
             shownFrom, call, audioLog>>

vars == <<segments, settled, buffers, audioBuffers, loaded, isPlaying, vtime, vpaused, endedPending,
              tickPending,
          triggered, active, hold, sources, stale, isExporting, isExportingRef,
          recorder, endedListener, orphan, recordedBlob,
          currentTime, currentCaption, exportProgress,
          supported, mimeType, chunks, blobType, blobChunks, rafPending, delivery,
          passStarts, prevStarted, scen, scenLog, expLog, liveTriggered, liveLog,
          delivered, frameDrawn,
          appState, videoFile, videoPreviewUrl, dubbingSegments, error, pending,
          shownFrom, call, audioLog>>

Indices == DOMAIN segments

\* the program state as one record, so that handlers compose
Cur ==
  [segments |-> segments, settled |-> settled, buffers |-> buffers,
   audioBuffers |-> audioBuffers, loaded |-> loaded,
   isPlaying |-> isPlaying, vtime |-> vtime, vpaused |-> vpaused,
   endedPending |-> endedPending, tickPending |-> tickPending,
   triggered |-> triggered, active |-> active,
   hold |-> hold, sources |-> sources, stale |-> stale,
   isExporting |-> isExporting, isExportingRef |-> isExportingRef,
   recorder |-> recorder, endedListener |-> endedListener, orphan |-> orphan,
   recordedBlob |-> recordedBlob,
   currentTime |-> currentTime, currentCaption |-> currentCaption,
   exportProgress |-> exportProgress,
   supported |-> supported, mimeType |-> mimeType, chunks |-> chunks,
   blobType |-> blobType, blobChunks |-> blobChunks, rafPending |-> rafPending,
   delivery |-> delivery]

Commit(s) ==
  /\ segments' = s.segments
  /\ settled' = s.settled
  /\ buffers' = s.buffers
  /\ audioBuffers' = s.audioBuffers
  /\ loaded' = s.loaded
  /\ isPlaying' = s.isPlaying
  /\ vtime' = s.vtime
  /\ vpaused' = s.vpaused
  /\ endedPending' = s.endedPending
  /\ tickPending' = s.tickPending
  /\ triggered' = s.triggered
  /\ active' = s.active
  /\ hold' = s.hold
  /\ sources' = s.sources
  /\ stale' = s.stale
  /\ isExporting' = s.isExporting
  /\ isExportingRef' = s.isExportingRef
  /\ recorder' = s.recorder
  /\ endedListener' = s.endedListener
  /\ orphan' = s.orphan
  /\ recordedBlob' = s.recordedBlob
  /\ currentTime' = s.currentTime
  /\ currentCaption' = s.currentCaption
  /\ exportProgress' = s.exportProgress
  /\ supported' = s.supported
  /\ mimeType' = s.mimeType
  /\ chunks' = s.chunks
  /\ blobType' = s.blobType
  /\ blobChunks' = s.blobChunks
  /\ rafPending' = s.rafPending
  /\ delivery' = s.delivery
  /\ UNCHANGED appVars

\* ---------------------------------------------------------------- handlers

\* video.play(): playback that has ended restarts from the beginning
VideoPlay(s) ==
  [s EXCEPT !.vpaused = FALSE, !.vtime = IF @ = Duration THEN 0 ELSE @]

\* video.pause(): pausing a playing video queues a timeupdate
VideoPause(s) ==
  IF s.vpaused THEN s ELSE [s EXCEPT !.vpaused = TRUE, !.tickPending = TRUE]

\* video.currentTime = time: the seek is followed by a timeupdate
VideoSeek(s, time) == [s EXCEPT !.vtime = time, !.tickPending = TRUE]

\* the voices whose ended event is outstanding form a multiset: kept sorted
VoiceKey(v) == 2 * v.index + (IF v.playing THEN 1 ELSE 0)

Stopped(q) == SortSeq(q, LAMBDA a, b : VoiceKey(a) < VoiceKey(b))

\* stopAllAudio that forgets to reset activeSegmentIndexRef
StopAllAudio_KeepActive(s) ==
  [s EXCEPT !.stale = Stopped(@ \o s.sources),
            !.sources = <<>>,
            !.hold = FALSE]

\* stopAllAudio: every source is stopped (its ended event is delivered later)
StopAllAudio(s) ==
  [s EXCEPT !.stale = Stopped(@ \o s.sources),
            !.sources = <<>>,
            !.active = NoSegment,
            !.hold = FALSE]

\* the effect pausing the video without calling stopAllAudio
EffectIsPlaying_NoStop(s) ==
  IF s.isPlaying /\ ~s.hold
  THEN VideoPlay(s)
  ELSE IF ~s.isPlaying
       THEN VideoPause(s)
       ELSE s

\* useEffect on [isPlaying]
EffectIsPlaying(s) ==
  IF s.isPlaying /\ ~s.hold
  THEN VideoPlay(s)
  ELSE IF ~s.isPlaying
       THEN StopAllAudio(VideoPause(s))
       ELSE s

\* setIsPlaying(b), the re-render and the effect (which runs only on a change)
SetIsPlaying(s, b) ==
  IF s.isPlaying = b THEN s ELSE EffectIsPlaying([s EXCEPT !.isPlaying = b])

\* playSegmentAudio reading each buffer as soon as it is decoded
PlaySegmentAudio_Early(s, index) ==
  IF index \notin s.buffers
  THEN s
  ELSE [s EXCEPT !.sources = Append(@, [index |-> index, playing |-> s.isPlaying]),
                 !.active = index]

\* playSegmentAudio(index), up to the registration of onended
PlaySegmentAudio(s, index) ==
  IF index \notin s.audioBuffers
  THEN s
  ELSE [s EXCEPT !.sources = Append(@, [index |-> index, playing |-> s.isPlaying]),
                 !.active = index]

\* source.onended of voice v, after v has left the event queue
OnEnded(s, v) ==
  IF s.active = v.index
  THEN IF s.hold /\ v.playing
       THEN VideoPlay([s EXCEPT !.active = NoSegment, !.hold = FALSE])
       ELSE [s EXCEPT !.active = NoSegment]
  ELSE s

\* InWindow with the upper end of the window included
InWindow_Closed(s, index, time) ==
  time >= s.segments[index] /\ time <= s.segments[index] + TriggerWindow

\* the condition of handleTimeUpdate's trigger loop
InWindow(s, index, time) ==
  time >= s.segments[index] /\ time < s.segments[index] + TriggerWindow

\* TriggerOne without the triggeredSegmentsRef.has(index) test
TriggerOne_NoHasCheck(s, index, time) ==
  IF InWindow(s, index, time)
  THEN PlaySegmentAudio([s EXCEPT !.triggered = @ \cup {index}], index)
  ELSE s

\* one iteration of segments.forEach in handleTimeUpdate
TriggerOne(s, index, time) ==
  IF InWindow(s, index, time) /\ index \notin s.triggered
  THEN PlaySegmentAudio([s EXCEPT !.triggered = @ \cup {index}], index)
  ELSE s

RECURSIVE TriggerFrom(_, _, _)
TriggerFrom(s, index, time) ==
  IF index \notin DOMAIN s.segments
  THEN s
  ELSE TriggerFrom(TriggerOne(s, index, time), index + 1, time)

\* handleTimeUpdate, part 1
TriggerAudio(s, time) == TriggerFrom(s, 0, time)

\* SmartPause without the staleness bound timeToNext > -0.5
SmartPause_NoStaleness(s, time) ==
  IF /\ s.active # NoSegment
     /\ (s.active + 1) \in DOMAIN s.segments
     /\ s.segments[s.active + 1] - time <= HoldLookAhead
     /\ ~s.hold
     /\ ~s.vpaused
  THEN VideoPause([s EXCEPT !.hold = TRUE])
  ELSE s

\* SmartPause with timeToNext < 0.2 in place of timeToNext <= 0.2
SmartPause_StrictLookAhead(s, time) ==
  IF /\ s.active # NoSegment
     /\ (s.active + 1) \in DOMAIN s.segments
     /\ s.segments[s.active + 1] - time < HoldLookAhead
     /\ s.segments[s.active + 1] - time > -HoldStaleness
     /\ ~s.hold
     /\ ~s.vpaused
  THEN VideoPause([s EXCEPT !.hold = TRUE])
  ELSE s

\* the smart pause setting the flag without pausing the video
SmartPause_NoPause(s, time) ==
  IF /\ s.active # NoSegment
     /\ (s.active + 1) \in DOMAIN s.segments
     /\ s.segments[s.active + 1] - time <= HoldLookAhead
     /\ s.segments[s.active + 1] - time > -HoldStaleness
     /\ ~s.hold
     /\ ~s.vpaused
  THEN [s EXCEPT !.hold = TRUE]
  ELSE s

\* handleTimeUpdate, part 2
SmartPause(s, time) ==
  IF /\ s.active # NoSegment
     /\ (s.active + 1) \in DOMAIN s.segments
     /\ s.segments[s.active + 1] - time <= HoldLookAhead
     /\ s.segments[s.active + 1] - time > -HoldStaleness
     /\ ~s.hold
     /\ ~s.vpaused
  THEN VideoPause([s EXCEPT !.hold = TRUE])
  ELSE s

\* CaptionStep with time <= endTime in place of time < endTime
CaptionStep_ClosedEnd(segs, prev, current, time) ==
  IF /\ time >= segs[current]
     /\ (prev = NoSegment \/ segs[current] > segs[prev])
  THEN LET endTime == IF (current + 1) \in DOMAIN segs
                      THEN segs[current + 1]
                      ELSE segs[current] + CaptionTail
       IN IF time <= endTime THEN current ELSE prev
  ELSE prev

\* the reducer of handleTimeUpdate's segments.reduce: prev and the result
\* are segment indices, NoSegment for null
CaptionStep(segs, prev, current, time) ==
  IF /\ time >= segs[current]
     /\ (prev = NoSegment \/ segs[current] > segs[prev])
  THEN LET endTime == IF (current + 1) \in DOMAIN segs
                      THEN segs[current + 1]
                      ELSE segs[current] + CaptionTail
       IN IF time < endTime THEN current ELSE prev
  ELSE prev

RECURSIVE CaptionFrom(_, _, _, _)
CaptionFrom(segs, prev, index, time) ==
  IF index \notin DOMAIN segs
  THEN prev
  ELSE CaptionFrom(segs, CaptionStep(segs, prev, index, time), index + 1, time)

\* activeSegment of handleTimeUpdate
ActiveSegment(segs, time) == CaptionFrom(segs, NoSegment, 0, time)

\* handleTimeUpdate, part 3
Captions(s, time) ==
  LET activeSegment == ActiveSegment(s.segments, time)
  IN [s EXCEPT !.currentCaption =
                 IF activeSegment # NoSegment THEN activeSegment ELSE NoCaption]

\* the percentage cut off instead of rounded
Percent_Floor(time) == (100 * time) \div Duration

\* Math.round((time / duration) * 100)
Percent(time) == (200 * time + Duration) \div (2 * Duration)

\* handleTimeUpdate, part 4
Progress(s, time) ==
  IF s.isExporting THEN [s EXCEPT !.exportProgress = Percent(time)] ELSE s

HandleTimeUpdate(s, time) ==
  Progress(Captions(SmartPause(TriggerAudio([s EXCEPT !.currentTime = time], time),
                               time),
                    time),
           time)

\* no artifact and nothing handed out
NoDelivery == [how |-> "none", ext |-> "none", type |-> NoType, data |-> <<>>]

\* setRecordedBlob(null)
ClearBlob(s) ==
  [s EXCEPT !.recordedBlob = FALSE, !.blobType = NoType, !.blobChunks = <<>>,
            !.delivery = NoDelivery]

\* handleSeek without triggeredSegmentsRef.current.clear()
HandleSeek_NoClear(s, time) ==
  [VideoSeek(ClearBlob(s), time) EXCEPT !.currentTime = time,
                             !.stale = Stopped(@ \o s.sources), !.sources = <<>>,
                             !.active = NoSegment, !.hold = FALSE]

\* handleSeek without setRecordedBlob(null)
HandleSeek_KeepBlob(s, time) ==
  StopAllAudio([VideoSeek(s, time) EXCEPT !.currentTime = time, !.triggered = {}])

\* handleSeek without stopAllAudio()
HandleSeek_NoStop(s, time) ==
  [VideoSeek(ClearBlob(s), time) EXCEPT !.currentTime = time, !.triggered = {}]

\* handleSeek
HandleSeek(s, time) ==
  StopAllAudio([VideoSeek(ClearBlob(s), time) EXCEPT !.currentTime = time,
                                                     !.triggered = {}])

\* togglePlay
TogglePlay(s) == SetIsPlaying(s, ~s.isPlaying)

\* ExportPrefix without triggeredSegmentsRef.current.clear()
ExportPrefix_NoClear(s) ==
  StopAllAudio([ClearBlob(s) EXCEPT !.isExporting = TRUE, !.isExportingRef = TRUE])

\* handleStartExport; outcome "noctx": canvas.getContext returns null,
\* "throw": captureStream or the MediaRecorder constructor throws,
\* "playrejected": recorder.start() has run and the promise of video.play()
\* is rejected (the video stays paused; the play() of the isPlaying effect
\* is rejected alike), "ok"
ExportPrefix(s) ==
  StopAllAudio([ClearBlob(s) EXCEPT !.isExporting = TRUE, !.isExportingRef = TRUE,
                                    !.triggered = {}])

\* handleStartExport's MIME selection: 'video/webm' unless isTypeSupported
\* accepts 'video/mp4' or else 'video/webm;codecs=vp9'
MimeSelection(sup) ==
  IF "video/mp4" \in sup
  THEN "video/mp4"
  ELSE IF "video/webm;codecs=vp9" \in sup
       THEN "video/webm;codecs=vp9"
       ELSE "video/webm"

\* handleStartExport from draw() to recorder.start(): the frame loop runs,
\* the recorder records into a new chunks array
CaptureStart(s) ==
  [s EXCEPT !.rafPending = TRUE, !.mimeType = MimeSelection(s.supported),
            !.chunks = <<>>, !.recorder = "recording"]

\* handleStartExport's catch block
CaptureCatch(s) ==
  [s EXCEPT !.isExporting = FALSE, !.isExportingRef = FALSE,
            !.rafPending = FALSE, !.mimeType = NoType]

\* handleStartExport without video.currentTime = 0
HandleStartExport_NoSeek(s, outcome) ==
  LET was == s.isPlaying
      a == [ExportPrefix(s) EXCEPT !.isPlaying = TRUE]
      b == IF outcome = "ok"
           THEN VideoPlay([CaptureStart(a) EXCEPT !.endedListener = TRUE])
           ELSE IF outcome = "playrejected"
                THEN [CaptureCatch(a) EXCEPT !.orphan = TRUE]
                ELSE IF outcome = "throw"
                     THEN CaptureCatch(a)
                     ELSE [a EXCEPT !.isExporting = FALSE, !.isExportingRef = FALSE]
  IN IF was \/ outcome = "playrejected" THEN b ELSE EffectIsPlaying(b)

HandleStartExport(s, outcome) ==
  LET was == s.isPlaying
      a == [ExportPrefix(s) EXCEPT !.isPlaying = TRUE]
      b == IF outcome = "ok"
           THEN VideoPlay([VideoSeek(CaptureStart(a), 0) EXCEPT !.endedListener = TRUE])
           ELSE IF outcome = "playrejected"
                THEN [VideoSeek(CaptureCatch(a), 0) EXCEPT !.orphan = TRUE]
                ELSE IF outcome = "throw"
                     THEN CaptureCatch(a)
                     ELSE [a EXCEPT !.isExporting = FALSE, !.isExportingRef = FALSE]
  IN IF was \/ outcome = "playrejected" THEN b ELSE EffectIsPlaying(b)

\* the video's ended event: onEnded of the element and onEndedHandler
VideoEnded(s) ==
  LET a == IF s.endedListener
           THEN [s EXCEPT !.recorder = "stopping", !.endedListener = FALSE]
           ELSE s
  IN SetIsPlaying([a EXCEPT !.endedPending = FALSE], FALSE)

\* recorder.onstop without video.currentTime = 0
RecorderOnStop_NoRewind(s) ==
  LET a == [s EXCEPT !.rafPending = FALSE, !.isExportingRef = FALSE,
                     !.recordedBlob = TRUE, !.blobType = s.mimeType,
                     !.blobChunks = s.chunks, !.mimeType = NoType,
                     !.isExporting = FALSE, !.recorder = "inactive",
                     !.exportProgress = 0]
      b == SetIsPlaying(a, FALSE)
  IN [b EXCEPT !.triggered = {}]

\* recorder.onstop
RecorderOnStop(s) ==
  LET a == [s EXCEPT !.rafPending = FALSE, !.isExportingRef = FALSE,
                     !.recordedBlob = TRUE, !.blobType = s.mimeType,
                     !.blobChunks = s.chunks, !.mimeType = NoType,
                     !.isExporting = FALSE, !.recorder = "inactive",
                     !.exportProgress = 0]
      b == SetIsPlaying(a, FALSE)
  IN [VideoSeek(b, 0) EXCEPT !.triggered = {}]

\* recorder.ondataavailable that keeps empty data too
OnDataAvailable_NoSizeCheck(s, e) == [s EXCEPT !.chunks = Append(@, e)]

\* recorder.ondataavailable for the event e, the n-th of its recorder, with
\* e.data.size = e.size
OnDataAvailable(s, e) ==
  IF e.size > 0 THEN [s EXCEPT !.chunks = Append(@, e)] ELSE s

\* draw that goes on only while the video plays
Draw_WhilePlaying(s) ==
  IF ~s.isExportingRef \/ s.vpaused THEN [s EXCEPT !.rafPending = FALSE] ELSE s

\* draw, called back by requestAnimationFrame
Draw(s) ==
  IF ~s.isExportingRef THEN [s EXCEPT !.rafPending = FALSE] ELSE s

\* recordedBlob.type.includes('mp4'), over MimeTypes
IncludesMp4(type) == type \in {"video/mp4;codecs=avc1,mp4a.40.2", "video/mp4"}

\* downloadFallback(blob, fileName)
DownloadFallback(s, file) ==
  [s EXCEPT !.delivery = [how |-> "download", ext |-> file.ext,
                          type |-> file.type, data |-> file.data]]

\* handleShareOrSave that falls back only when sharing is unavailable
HandleShareOrSave_NoFallback(s, share) ==
  IF ~s.recordedBlob
  THEN s
  ELSE LET file == [ext |-> IF IncludesMp4(s.blobType) THEN "mp4" ELSE "webm",
                    type |-> s.blobType, data |-> s.blobChunks]
       IN IF share = "none"
          THEN DownloadFallback(s, file)
          ELSE IF share = "ok"
               THEN [s EXCEPT !.delivery = [how |-> "share", ext |-> file.ext,
                                            type |-> file.type, data |-> file.data]]
               ELSE [s EXCEPT !.delivery = [how |-> "abort", ext |-> "none",
                                            type |-> NoType, data |-> <<>>]]

\* handleShareOrSave; share: "none" (navigator.share or canShare is missing
\* or refuses the file), "ok", "abort" (rejected with an AbortError),
\* "error" (rejected with any other error)
HandleShareOrSave(s, share) ==
  IF ~s.recordedBlob
  THEN s
  ELSE LET file == [ext |-> IF IncludesMp4(s.blobType) THEN "mp4" ELSE "webm",
                    type |-> s.blobType, data |-> s.blobChunks]
       IN IF share = "none" \/ share = "error"
          THEN DownloadFallback(s, file)
          ELSE IF share = "ok"
               THEN [s EXCEPT !.delivery = [how |-> "share", ext |-> file.ext,
                                            type |-> file.type, data |-> file.data]]
               ELSE [s EXCEPT !.delivery = [how |-> "abort", ext |-> "none",
                                            type |-> NoType, data |-> <<>>]]

\* initAudio: audioBuffersRef.current = buffers once every load has settled
InitAudioSettled(s) ==
  [s EXCEPT !.audioBuffers = s.buffers, !.loaded = TRUE]

\* SegmentSettled without the try/catch around one segment's fetch/decode:
\* the first failure rejects Promise.all and no buffer is ever published
SegmentSettled_NoCatch(s, i, ok) ==
  LET a == [s EXCEPT !.settled = @ \cup {i},
                     !.buffers = IF ok THEN @ \cup {i} ELSE @]
  IN IF ~ok
     THEN [a EXCEPT !.settled = DOMAIN a.segments, !.loaded = TRUE]
     ELSE IF a.settled = DOMAIN a.segments THEN InitAudioSettled(a) ELSE a

\* initAudio: the fetch/decode of segment i settles, with a buffer (ok) or in
\* the catch; Promise.all resolves with the last one
SegmentSettled(s, i, ok) ==
  LET a == [s EXCEPT !.settled = @ \cup {i},
                     !.buffers = IF ok THEN @ \cup {i} ELSE @]
  IN IF a.settled = DOMAIN a.segments THEN InitAudioSettled(a) ELSE a

\* ------------------------------------------------- timeline generation

\* s.text.trim() on a sequence of characters
RECURSIVE TrimLeft(_)
TrimLeft(text) ==
  IF text # <<>> /\ Head(text) = " " THEN TrimLeft(Tail(text)) ELSE text

RECURSIVE TrimRight(_)
TrimRight(text) ==
  IF text # <<>> /\ text[Len(text)] = " "
  THEN TrimRight(SubSeq(text, 1, Len(text) - 1))
  ELSE text

Trim(text) == TrimRight(TrimLeft(text))

\* parseTimestamp, on the parts of timeStr.split(':')
ParseTimestamp(parts) ==
  IF parts = <<>>
  THEN 0
  ELSE IF Len(parts) = 2 THEN parts[1] * 60 + parts[2] ELSE 0

\* rawSegments.filter(s => s.text && s.text.trim().length > 0); n is the
\* position of the line in the script
ValidSegments(raw) ==
  SelectSeq([k \in 1..Len(raw) |->
               [n |-> k, timestamp |-> raw[k].timestamp, text |-> raw[k].text]],
            LAMBDA seg : seg.text # <<>> /\ Len(Trim(seg.text)) > 0)

\* a generateDubbingTimeline call that has not begun
IdleCall ==
  [stage |-> "idle", raw |-> <<>>, valid |-> <<>>, next |-> 1, inFlight |-> {},
   processed |-> <<>>, result |-> "none"]

\* generateDubbingTimeline up to the await of generateScriptSegments
StartCall(c) == [c EXCEPT !.stage = "script"]

\* fileToGenerativePart and generateScriptSegments settle; outcome "throw":
\* one of them rejects (file read error, API error, no or unparsable text)
ScriptSettle(c, outcome, raw) ==
  IF outcome = "throw" \/ raw = <<>>
  THEN [c EXCEPT !.stage = "done", !.result = "error"]
  ELSE [c EXCEPT !.stage = "audio", !.raw = raw, !.valid = ValidSegments(raw)]

\* the loop reaches generateSegmentAudio for the next valid segment
AudioRequest(c) == [c EXCEPT !.inFlight = @ \cup {c.valid[c.next].n}]

\* the loop with a failed audio request aborting the generation
AudioSettle_Abort(c, ok) ==
  LET seg == c.valid[c.next]
  IN IF ok
     THEN [c EXCEPT !.inFlight = {}, !.next = @ + 1,
                    !.processed = Append(@, [startTime |-> ParseTimestamp(seg.timestamp),
                                             text |-> seg.text,
                                             audioUrl |-> seg.n])]
     ELSE [c EXCEPT !.inFlight = {}, !.stage = "done", !.result = "error"]

\* generateSegmentAudio settles: the segment is pushed, or the catch skips it
AudioSettle(c, ok) ==
  LET seg == c.valid[c.next]
  IN IF ok
     THEN [c EXCEPT !.inFlight = {}, !.next = @ + 1,
                    !.processed = Append(@, [startTime |-> ParseTimestamp(seg.timestamp),
                                             text |-> seg.text,
                                             audioUrl |-> seg.n])]
     ELSE [c EXCEPT !.inFlight = {}, !.next = @ + 1]

\* the end of the loop: the list is returned, or the error is thrown
Return(c) ==
  IF c.processed = <<>>
  THEN [c EXCEPT !.stage = "done", !.result = "error"]
  ELSE [c EXCEPT !.stage = "done", !.result = "list"]

\* a call run from the end of the script stage to its end, audio[n] telling
\* whether the audio request of line n succeeds
RECURSIVE RunCall(_, _)
RunCall(c, audio) ==
  IF c.stage = "done"
  THEN c
  ELSE IF c.inFlight # {}
       THEN RunCall(AudioSettle(c, audio[c.valid[c.next].n]), audio)
       ELSE IF c.next <= Len(c.valid)
            THEN RunCall(AudioRequest(c), audio)
            ELSE RunCall(Return(c), audio)

\* generateDubbingTimeline as the App sees it
GenerateDubbingTimeline(outcome, raw, audio) ==
  RunCall(ScriptSettle(StartCall(IdleCall), outcome, raw), audio)

\* ------------------------------------------------------------------ the App

CurApp ==
  [appState |-> appState, videoFile |-> videoFile,
   videoPreviewUrl |-> videoPreviewUrl, dubbingSegments |-> dubbingSegments,
   error |-> error, pending |-> pending]

CommitApp(a) ==
  /\ appState' = a.appState
  /\ videoFile' = a.videoFile
  /\ videoPreviewUrl' = a.videoPreviewUrl
  /\ dubbingSegments' = a.dubbingSegments
  /\ error' = a.error
  /\ pending' = a.pending

\* handleFileSelect
HandleFileSelect(a, file) ==
  IF FileSize[file] > SizeLimit
  THEN [a EXCEPT !.error = "size"]
  ELSE [a EXCEPT !.videoFile = file, !.videoPreviewUrl = file,
                 !.appState = "IDLE", !.dubbingSegments = <<>>,
                 !.error = NoError]

\* handleGenerate up to the await of generateDubbingTimeline(videoFile, ...)
HandleGenerate(a) ==
  IF a.videoFile = NoFile
  THEN a
  ELSE [a EXCEPT !.appState = "PROCESSING", !.error = NoError,
                 !.pending[a.videoFile] = @ + 1]

\* handleGenerate after the await, for the call made with `file`; r is the
\* finished call
HandleGenerated(a, file, r) ==
  IF r.result = "list"
  THEN [a EXCEPT !.dubbingSegments = r.processed, !.appState = "COMPLETED",
                 !.pending[file] = @ - 1]
  ELSE [a EXCEPT !.error = "generation", !.appState = "ERROR",
                 !.pending[file] = @ - 1]

\* ----------------------------------------------------------------- history

\* the indices of the voices a handler appended to activeSourcesRef
StartedBy(s, r) ==
  [k \in 1..(Len(r.sources) - Len(s.sources)) |-> r.sources[Len(s.sources) + k].index]

Range(q) == {q[k] : k \in DOMAIN q}

Count(q, x) == Cardinality({k \in DOMAIN q : q[k] = x})

Min2(n) == IF n > 2 THEN 2 ELSE n

ScenarioTicks == <<1, 5, 38, 41, 46>>

RECURSIVE Pairs(_, _)
Pairs(time, q) ==
  IF q = <<>> THEN <<>> ELSE <<<<time, Head(q)>>>> \o Pairs(time, Tail(q))

KeepCapture == UNCHANGED <<delivered, frameDrawn>>

KeepPass ==
  UNCHANGED <<passStarts, prevStarted, scen, scenLog, expLog, liveTriggered, liveLog>>

KeepHistory == KeepPass /\ KeepCapture

\* a live playback pass from time 0: play intent, the video playing, no
\* voice, no hold, no export, and the triggered set t
LivePass(s, t) ==
  [s EXCEPT !.triggered = t, !.sources = <<>>, !.stale = <<>>,
            !.active = NoSegment, !.hold = FALSE, !.isPlaying = TRUE,
            !.vpaused = FALSE, !.isExporting = FALSE, !.isExportingRef = FALSE,
            !.recorder = "inactive", !.endedListener = FALSE,
            !.recordedBlob = FALSE]

\* a new pass begins; bySeek: it was begun by handleSeek
ResetPass(bySeek) ==
  /\ passStarts' = [i \in Indices |-> 0]
  /\ prevStarted' = IF bySeek THEN {i \in Indices : passStarts[i] > 0} ELSE {}
  /\ scen' = 0
  /\ scenLog' = <<>>
  /\ expLog' = <<>>
  /\ liveTriggered' = {}
  /\ liveLog' = <<>>

\* ------------------------------------------------------------------ actions

\* the App before a file is selected, and no timeline call begun
AppIdle ==
  /\ appState = "IDLE"
  /\ videoFile = NoFile
  /\ videoPreviewUrl = NoFile
  /\ dubbingSegments = <<>>
  /\ error = NoError
  /\ pending = [f \in Files |-> 0]
  /\ shownFrom = NoFile
  /\ call = IdleCall
  /\ audioLog = <<>>

\* the App showing the player: COMPLETED with the segments generated for
\* file "a", one per segment of the player
AppCompleted ==
  /\ appState = "COMPLETED"
  /\ videoFile = "a"
  /\ videoPreviewUrl = "a"
  /\ dubbingSegments = [k \in 1..Cardinality(DOMAIN segments) |->
                          [startTime |-> segments[k - 1], text |-> <<"h">>,
                           audioUrl |-> k]]
  /\ error = NoError
  /\ pending = [f \in Files |-> 0]
  /\ shownFrom = "a"
  /\ call = IdleCall
  /\ audioLog = <<>>

\* the player's own state after it has mounted
PlayerMounted(segLists, supportedSets) ==
  /\ segments \in segLists
  /\ supported \in supportedSets
  /\ settled = {}
  /\ buffers = {}
  /\ audioBuffers = {}
  /\ loaded = FALSE
  /\ isPlaying = FALSE
  /\ vtime = 0
  /\ vpaused = TRUE
  /\ endedPending = FALSE
  /\ tickPending = FALSE
  /\ triggered = {}
  /\ active = NoSegment
  /\ hold = FALSE
  /\ sources = <<>>
  /\ stale = <<>>
  /\ isExporting = FALSE
  /\ isExportingRef = FALSE
  /\ recorder = "inactive"
  /\ endedListener = FALSE
  /\ orphan = FALSE
  /\ recordedBlob = FALSE
  /\ currentTime = 0
  /\ currentCaption = NoCaption
  /\ exportProgress = 0
  /\ mimeType = NoType
  /\ chunks = <<>>
  /\ blobType = NoType
  /\ blobChunks = <<>>
  /\ rafPending = FALSE
  /\ delivery = NoDelivery
  /\ passStarts = [i \in DOMAIN segments |-> 0]
  /\ prevStarted = {}
  /\ scen = 0
  /\ scenLog = <<>>
  /\ expLog = <<>>
  /\ liveTriggered = {}
  /\ liveLog = <<>>
  /\ delivered = <<>>
  /\ frameDrawn = FALSE

\* the state after the component has mounted
Mounted(segLists, supportedSets) ==
  /\ PlayerMounted(segLists, supportedSets)
  /\ AppCompleted

Init == Mounted(SegLists, {SupportedHere})

\* the fetch/decode of one segment settles, in any order, decoded or failed
Load ==
  /\ ~endedPending
  /\ \E i \in Indices \ settled, ok \in BOOLEAN :
       Commit(SegmentSettled(Cur, i, ok))
  /\ KeepHistory

\* a timeupdate event at position `time`: the playing video has advanced
\* to it, or a seek or a pause reports the position
TickAt(time) ==
  /\ ~endedPending
  /\ time >= vtime
  /\ vpaused => (tickPending /\ time = vtime)
  /\ LET s == [Cur EXCEPT !.vtime = time, !.tickPending = FALSE]
         r == HandleTimeUpdate(s, time)
         atEnd == ~vpaused /\ time = Duration
         started == StartedBy(s, r)
         first == scen = 0 /\ triggered = {} /\ audioBuffers = Indices
         inExport == recorder = "recording"
         shadow == LivePass(s, liveTriggered)
         live == HandleTimeUpdate(shadow, time)
         next == /\ segments = ScenarioSegments
                 /\ scen < Len(ScenarioTicks)
                 /\ time = ScenarioTicks[scen + 1]
                 /\ scen = 0 => first
     IN /\ Len(r.sources) + Len(r.stale) <= MaxVoices
        /\ Commit(IF atEnd
                  THEN [r EXCEPT !.vpaused = TRUE, !.endedPending = TRUE]
                  ELSE r)
        /\ passStarts' = [i \in Indices |-> Min2(passStarts[i] + Count(started, i))]
        /\ UNCHANGED prevStarted
        /\ scen' = IF next THEN scen + 1 ELSE 0
        /\ scenLog' = IF next THEN scenLog \o Pairs(time, started) ELSE <<>>
        /\ expLog' = IF inExport THEN expLog \o started ELSE expLog
        /\ liveTriggered' = IF inExport THEN live.triggered ELSE liveTriggered
        /\ liveLog' = IF inExport THEN liveLog \o StartedBy(shadow, live) ELSE liveLog
        /\ frameDrawn' = FALSE
        /\ UNCHANGED delivered

Tick == \E time \in Times : TickAt(time)

\* the ended event that follows the final timeupdate
Ended ==
  /\ endedPending
  /\ Commit(VideoEnded(Cur))
  /\ KeepHistory

\* a playing voice reaches the end of its buffer: its onended runs
VoiceEnded ==
  /\ ~endedPending
  /\ \E k \in DOMAIN sources :
       LET v == sources[k]
           rest == [j \in 1..(Len(sources) - 1) |->
                      IF j < k THEN sources[j] ELSE sources[j + 1]]
       IN Commit(OnEnded([Cur EXCEPT !.sources = rest], v))
  /\ KeepHistory

\* the ended event of a voice that stopAllAudio stopped is delivered
StaleEnded ==
  /\ ~endedPending
  /\ \E k \in DOMAIN stale :
       LET v == stale[k]
           rest == [j \in 1..(Len(stale) - 1) |->
                      IF j < k THEN stale[j] ELSE stale[j + 1]]
       IN Commit(OnEnded([Cur EXCEPT !.stale = rest], v))
  /\ KeepHistory

\* the user clicks play/pause (disabled while exporting or an artifact is shown)
Toggle ==
  /\ ~endedPending
  /\ ~isExporting
  /\ ~recordedBlob
  /\ Commit(TogglePlay(Cur))
  /\ KeepHistory

\* the user moves the seek bar (disabled while exporting)
Seek ==
  /\ ~endedPending
  /\ ~isExporting
  /\ \E time \in SeekTimes :
       Commit(HandleSeek(Cur, time))
  /\ ResetPass(TRUE)
  /\ KeepCapture

\* the user clicks Create Video (hidden while an artifact is shown,
\* disabled while exporting)
StartExport ==
  /\ ~endedPending
  /\ ~isExporting
  /\ ~recordedBlob
  /\ recorder = "inactive"
  /\ \E outcome \in {"ok", "noctx", "throw", "playrejected"} :
       /\ outcome = "playrejected" => vpaused
       /\ Commit(HandleStartExport(Cur, outcome))
  /\ ResetPass(FALSE)
  /\ delivered' = <<>>
  /\ UNCHANGED frameDrawn

\* the recorder's stop event
RecorderStop ==
  /\ ~endedPending
  /\ recorder = "stopping"
  /\ Commit(RecorderOnStop(Cur))
  /\ ResetPass(FALSE)
  /\ KeepCapture

\* the user clicks Back to Preview
BackToPreview ==
  /\ ~endedPending
  /\ recordedBlob
  /\ Commit(ClearBlob(Cur))
  /\ KeepHistory

\* the recorder hands over encoded data, possibly none
DataAvailable ==
  /\ ~endedPending
  /\ recorder \in {"recording", "stopping"}
  /\ Len(delivered) < MaxChunks
  /\ \E size \in ChunkSizes :
       LET e == [n |-> Len(delivered) + 1, size |-> size]
       IN /\ Commit(OnDataAvailable(Cur, e))
          /\ delivered' = Append(delivered, e)
  /\ KeepPass
  /\ UNCHANGED frameDrawn

\* an animation frame: the draw callback runs
Frame ==
  /\ ~endedPending
  /\ rafPending
  /\ Commit(Draw(Cur))
  /\ frameDrawn' = isExportingRef
  /\ KeepPass
  /\ UNCHANGED delivered

\* the user clicks Save / Share on the finished video
Deliver ==
  /\ ~endedPending
  /\ recordedBlob
  /\ \E share \in {"none", "ok", "abort", "error"} :
       Commit(HandleShareOrSave(Cur, share))
  /\ KeepHistory

Next ==
  \/ Load
  \/ Tick
  \/ Ended
  \/ VoiceEnded
  \/ StaleEnded
  \/ Toggle
  \/ Seek
  \/ StartExport
  \/ RecorderStop
  \/ BackToPreview

Spec == Init /\ [][Next]_vars

\* the browser delivers the events it has queued: the ended event of a
\* video that has reached its end, and the stop event of a MediaRecorder
\* whose stop() has been called
FairSpec == Spec /\ WF_vars(Ended) /\ WF_vars(RecorderStop)

\* in addition the playing video advances and reports its position (weak
\* fairness of the ticks that move the position forward, which are enabled
\* exactly while the video plays before its end), and every voice, playing
\* or stopped, delivers its ended event
VideoAdvances ==
  \/ []<>(vpaused \/ endedPending \/ vtime = Duration)
  \/ []<><<vtime' > vtime /\ TickAt(vtime')>>_vars

LiveSpec ==
  /\ Spec
  /\ VideoAdvances
  /\ WF_vars(VoiceEnded)
  /\ WF_vars(StaleEnded)
  /\ WF_vars(Ended)
  /\ WF_vars(RecorderStop)

\* the caption resolution applied to every input: handleTimeUpdate at any
\* position of any sorted segment list
CaptionInit == Mounted(CaptionSegLists, {SupportedHere})

CaptionTickAt(time) ==
  /\ Commit(HandleTimeUpdate([Cur EXCEPT !.vtime = time], time))
  /\ KeepHistory

CaptionTick == \E time \in CaptionTimes : CaptionTickAt(time)

CaptionNext == CaptionTick

CaptionSpec == CaptionInit /\ [][CaptionNext]_vars

\* the capture: the export controller with the recorder's data events, the
\* frame loop and the delivery of the artifact, for one segment list and
\* without the play and seek controls.  Spec leaves these three events
\* out: they read the engine state and write only the capture's own.
CaptureInit == Mounted({CaptureSegments}, {SupportedHere})

CaptureTick == \E time \in CaptureTimes : TickAt(time)

CaptureNext ==
  \/ Load
  \/ CaptureTick
  \/ Ended
  \/ VoiceEnded
  \/ StaleEnded
  \/ StartExport
  \/ RecorderStop
  \/ BackToPreview
  \/ DataAvailable
  \/ Frame
  \/ Deliver

CaptureSpec == CaptureInit /\ [][CaptureNext]_vars

\* the player mounted with two segments whose timestamps parse to the same
\* second
TieInit == Mounted({TieSegments}, {SupportedHere})

TieSpec == TieInit /\ [][Next]_vars

\* the player driven by timeupdates less than 0.2 s apart, over segments
\* whose start times are at least 0.3 s apart
PaceInit == Mounted(PaceSegLists, {SupportedHere})

PaceTick == \E time \in PaceTimes : time - vtime < HoldLookAhead /\ TickAt(time)

PaceNext ==
  \/ Load
  \/ PaceTick
  \/ VoiceEnded
  \/ StaleEnded
  \/ Toggle
  \/ Seek

PaceSpec == PaceInit /\ [][PaceNext]_vars

\* ---------------------------------------------------- the App's own steps

\* the App as first rendered: no file, no player
AppInit ==
  /\ PlayerMounted({SegOf(<<>>)}, {SupportedHere})
  /\ AppIdle

\* the requests of generateDubbingTimeline that have not settled
PendingTotal(p) == p["a"] + p["b"] + p["big"]

\* the user picks a file in the uploader, which is never disabled
FileSelect ==
  /\ \E file \in Files :
       /\ CommitApp(HandleFileSelect(CurApp, file))
       /\ shownFrom' = IF FileSize[file] > SizeLimit THEN shownFrom ELSE NoFile
  /\ UNCHANGED <<progVars, histVars, call, audioLog>>

\* the user clicks Generate, enabled with a file and outside PROCESSING
Generate ==
  /\ videoFile # NoFile
  /\ appState # "PROCESSING"
  /\ PendingTotal(pending) < MaxRequests
  /\ CommitApp(HandleGenerate(CurApp))
  /\ UNCHANGED <<progVars, histVars, shownFrom, call, audioLog>>

\* a request made with `file` settles and handleGenerate resumes
GenerateSettled ==
  /\ \E file \in Files :
       /\ pending[file] > 0
       /\ \E outcome \in {"ok", "throw"}, raw \in AppScripts,
             audio \in [1..MaxScript -> BOOLEAN] :
            LET r == GenerateDubbingTimeline(outcome, raw, audio)
            IN /\ CommitApp(HandleGenerated(CurApp, file, r))
               /\ shownFrom' = IF r.result = "list" THEN file ELSE shownFrom
  /\ UNCHANGED <<progVars, histVars, call, audioLog>>

AppNext ==
  \/ FileSelect
  \/ Generate
  \/ GenerateSettled

AppSpec == AppInit /\ [][AppNext]_vars

\* ------------------------------------------- one timeline call, by steps

KeepApp ==
  UNCHANGED <<progVars, histVars, appState, videoFile, videoPreviewUrl,
              dubbingSegments, error, pending, shownFrom>>

CallStarts ==
  /\ call.stage = "idle"
  /\ call' = StartCall(call)
  /\ audioLog' = <<>>
  /\ KeepApp

ScriptSettles ==
  /\ call.stage = "script"
  /\ \E outcome \in {"ok", "throw"}, raw \in Scripts :
       call' = ScriptSettle(call, outcome, raw)
  /\ UNCHANGED audioLog
  /\ KeepApp

AudioRequested ==
  /\ call.stage = "audio"
  /\ call.inFlight = {}
  /\ call.next <= Len(call.valid)
  /\ call' = AudioRequest(call)
  /\ UNCHANGED audioLog
  /\ KeepApp

AudioSettles ==
  /\ call.stage = "audio"
  /\ call.inFlight # {}
  /\ \E ok \in BOOLEAN :
       /\ call' = AudioSettle(call, ok)
       /\ audioLog' = Append(audioLog, [n |-> call.valid[call.next].n, ok |-> ok])
  /\ KeepApp

Returns ==
  /\ call.stage = "audio"
  /\ call.inFlight = {}
  /\ call.next > Len(call.valid)
  /\ call' = Return(call)
  /\ UNCHANGED audioLog
  /\ KeepApp

TimelineNext ==
  \/ CallStarts
  \/ ScriptSettles
  \/ AudioRequested
  \/ AudioSettles
  \/ Returns

TimelineSpec == AppInit /\ [][TimelineNext]_vars

\* the format negotiation for every set of supported types: exports of a
\* video without decoded narration
FormatInit == Mounted({ScenarioSegments}, SUBSET MimeTypes)

FormatNext ==
  \/ Tick
  \/ Ended
  \/ StartExport
  \/ RecorderStop
  \/ BackToPreview
  \/ Deliver

FormatSpec == FormatInit /\ [][FormatNext]_vars

TypeOK ==
  /\ segments \in SegLists
  /\ settled \subseteq Indices
  /\ buffers \subseteq settled
  /\ audioBuffers \subseteq Indices
  /\ loaded <=> settled = Indices
  /\ triggered \subseteq Indices
  /\ active \in Indices \cup {NoSegment}
  /\ vtime \in Times
  /\ Len(sources) + Len(stale) <= MaxVoices
  /\ recorder \in {"inactive", "recording", "stopping"}
  /\ currentTime \in Times
  /\ currentCaption \in Indices \cup {NoCaption}
  /\ exportProgress \in 0..100

\* ------------------------------------------------------------------ claims

\* the window of segment i as the claims state it: [startTime, startTime + 0.3)
Due(i, time) == segments[i] <= time /\ time < segments[i] + 6

\* the indices of the voices the step appended to activeSourcesRef, in order
NewVoices ==
  [k \in 1..(Len(sources') - Len(sources)) |-> sources'[Len(sources) + k].index]

\* the step is a timeupdate
TickStep == TickAt(vtime')

\* the step is the natural completion of the tracked voice: the most recently
\* started voice, whose segment is activeSegmentIndex
TrackedVoiceEnds ==
  /\ active # NoSegment
  /\ Len(sources') = Len(sources) - 1
  /\ sources[Len(sources)].index = active
  /\ sources' = SubSeq(sources, 1, Len(sources) - 1)
  /\ VoiceEnded

\* C1: within one pass (no seek, no restart by an export start or stop),
\* whatever ticks, pauses, resumes, holds and completions occur, the voice
\* of each segment is started at most once
C1_NoDoubleTrigger == \A i \in Indices : passStarts[i] <= 1

\* a second tick has landed in the window of segment 0 after its voice started
C1_Witness == scen = 2 /\ passStarts[0] = 1 /\ 0 \in triggered

\* C2 as stated: a tick starts the voice of i exactly when the time is in
\* the window of i and i is not in triggeredSet, and then i is in
\* triggeredSet and activeSegmentIndex is i
C2_Original ==
  [][TickStep => \A i \in Indices :
       /\ (i \in Range(NewVoices)) <=> (Due(i, vtime') /\ i \notin triggered)
       /\ (i \in Range(NewVoices)) => (i \in triggered' /\ active' = i)]_vars

\* C2 amended: a tick starts the voice of i exactly when the time is in the
\* window of i, i is not in triggeredSet and i has a decoded buffer; every
\* segment whose window contains the time is in triggeredSet afterwards;
\* activeSegmentIndex becomes the last segment the tick started and is left
\* alone by a tick that starts nothing; in the documented scenario the only
\* triggers are segment 0 at 0.05 and segment 1 at 2.05
C2_TriggerRule ==
  /\ [][TickStep =>
         /\ \A i \in Indices :
              /\ Count(NewVoices, i) =
                   (IF Due(i, vtime') /\ i \notin triggered /\ i \in audioBuffers
                    THEN 1 ELSE 0)
         /\ triggered' = triggered \cup {i \in Indices : Due(i, vtime')}
         /\ NewVoices # <<>> => active' = NewVoices[Len(NewVoices)]
         /\ NewVoices = <<>> => active' = active]_vars
  /\ [](scen = Len(ScenarioTicks) => scenLog = <<<<1, 0>>, <<41, 1>>>>)

\* the five ticks of the scenario have been delivered
C2_Witness == scen = Len(ScenarioTicks) /\ vtime = 46 /\ triggered = {0, 1}

\* C3: a seek empties triggeredSet, and after a seek the first tick that
\* lands in the window of a segment whose voice had started before the seek
\* starts it again
C3_RetriggerAfterSeek ==
  /\ [][(triggered' # {}) => ~Seek]_vars
  /\ [][TickStep => \A i \in prevStarted :
          (Due(i, vtime') /\ passStarts[i] = 0) => passStarts'[i] = 1]_vars
  /\ [](\A i \in prevStarted : i \in triggered => passStarts[i] = 1)

\* a segment started before the seek has been started again after it
C3_Witness == \E i \in prevStarted : passStarts[i] = 1 /\ Due(i, vtime)

\* C4: isHeldForNarration is never true while activeSegmentIndex is none
C4_HoldImpliesActive == hold => active # NoSegment

\* C5: whenever activeSegmentIndex is i, a voice of segment i is in the
\* active set (it has neither completed nor been stopped)
C5_ActiveHasVoice ==
  active # NoSegment => \E k \in DOMAIN sources : sources[k].index = active

\* a voice of the tracked segment is playing while the ended event of a
\* stopped voice of the same segment is still to be delivered
C5_Witness ==
  /\ active # NoSegment
  /\ \E k \in DOMAIN stale : stale[k].index = active

\* C6: when the engine is holding, play intent is true and the tracked
\* voice completes naturally, that callback clears the hold and resumes the
\* video
C6_HoldReleased ==
  [][(TrackedVoiceEnds /\ hold /\ isPlaying) => (~hold' /\ ~vpaused')]_vars

\* C7 as stated: a tick enters the hold only with activeSegmentIndex set, a
\* next segment, 0 <= timeToNext <= 0.2 and the video not paused
C7_Original ==
  [][(~hold /\ hold' /\ TickStep) =>
       /\ active' # NoSegment
       /\ (active' + 1) \in Indices
       /\ segments[active' + 1] - vtime' >= 0
       /\ segments[active' + 1] - vtime' <= 4
       /\ ~vpaused]_vars

\* C7 amended: a tick enters the hold only with activeSegmentIndex set (as
\* the tick's trigger step leaves it), a next segment, -0.5 < timeToNext <=
\* 0.2 and the video not paused
C7_HoldOnlyIf ==
  [][(~hold /\ hold' /\ TickStep) =>
       /\ active' # NoSegment
       /\ (active' + 1) \in Indices
       /\ segments[active' + 1] - vtime' > -10
       /\ segments[active' + 1] - vtime' <= 4
       /\ ~vpaused
       /\ vpaused']_vars

\* the engine holds at a time past the start of the next segment
C7_Witness ==
  /\ hold
  /\ active # NoSegment
  /\ (active + 1) \in Indices
  /\ segments[active + 1] < vtime

\* the preconditions of C8 and a tick at a time with timeToNext in [0, 0.2]
C8_Pre(a) ==
  /\ active = a
  /\ (a + 1) \in Indices
  /\ ~hold
  /\ ~vpaused
  /\ segments[a + 1] - vtime' >= 0
  /\ segments[a + 1] - vtime' <= 4
  /\ TickStep

\* C8 as stated: every tick with timeToNext in [0, 0.2], an active segment,
\* a next segment, the video playing and no hold enters the hold
C8_Original ==
  [][\A a \in Indices : C8_Pre(a) => (hold' /\ vpaused')]_vars

\* C8 amended: such a tick enters the hold unless the tick itself starts a
\* voice; with activeSegmentIndex 0 and the next start at 2.0 a tick at 1.85
\* enters the hold and a tick at 1.5 leaves the engine free and the video
\* playing
C8_HoldActivation ==
  /\ [][\A a \in Indices :
          (C8_Pre(a) /\ NewVoices = <<>>) => (hold' /\ vpaused')]_vars
  /\ [][(active = 0 /\ segments = ScenarioSegments /\ ~hold /\ ~vpaused /\ TickStep) =>
          /\ vtime' = 37 => (hold' /\ vpaused')
          /\ vtime' = 30 => (~hold' /\ ~vpaused')]_vars

\* the tick at 1.85 has put the engine on hold behind segment 0
C8_Witness ==
  /\ segments = ScenarioSegments
  /\ hold
  /\ vpaused
  /\ active = 0
  /\ vtime = 37

\* a step of the user
UserStep == Toggle \/ Seek \/ StartExport \/ BackToPreview

\* C9: the engine resumes a video it is holding only from the natural
\* completion of the tracked voice and only under play intent, and no voice
\* completion restarts the video while play intent is false
C9_ResumeOnlyByTrackedVoice ==
  /\ [][(hold /\ vpaused /\ ~vpaused' /\ ~UserStep) =>
          (TrackedVoiceEnds /\ isPlaying)]_vars
  /\ [][((VoiceEnded \/ StaleEnded) /\ ~isPlaying) => vpaused']_vars

\* C10: the step in which play intent becomes false stops every active
\* voice, empties the active set, clears activeSegmentIndex and the hold,
\* and leaves triggeredSet as it was
C10_CancellationTotal ==
  [][(isPlaying /\ ~isPlaying') =>
       /\ sources' = <<>>
       /\ Len(stale') = Len(stale) + Len(sources)
       /\ \A k \in DOMAIN sources : \E j \in DOMAIN stale' : stale'[j] = sources[k]
       /\ active' = NoSegment
       /\ ~hold'
       /\ vpaused'
       /\ triggered' = triggered]_vars

\* play intent is false, a voice started under play intent has been stopped
\* and its ended event is outstanding, and triggeredSet has kept its members
C10_Witness ==
  /\ ~isPlaying
  /\ sources = <<>>
  /\ active = NoSegment
  /\ triggered # {}
  /\ \E k \in DOMAIN stale : stale[k].playing /\ stale[k].index \in triggered

\* C11: the ended event of a voice that stopAllAudio stopped changes nothing
\* in the engine: activeSegmentIndex, the hold, the video transport, the
\* playing voices and triggeredSet stay as they were, also when the same
\* segment has been triggered again in between
C11_StaleCallbackNoOp ==
  [][StaleEnded =>
       /\ active' = active
       /\ hold' = hold
       /\ vpaused' = vpaused
       /\ sources' = sources
       /\ triggered' = triggered]_vars

\* the state a seek leaves behind: triggeredSet empty, no voice playing,
\* activeSegmentIndex none, hold false
SeekReset ==
  /\ triggered = {}
  /\ sources = <<>>
  /\ active = NoSegment
  /\ ~hold

\* C12: the step that changes the position by a seek also empties
\* triggeredSet and stops every voice, and until the next tick is processed
\* no other step undoes that: a tick is never evaluated at the new position
\* with the triggered set or the voices of the pass before the seek
C12_SeekAtomic ==
  /\ [][Seek => (SeekReset' /\ tickPending')]_vars
  /\ [][(SeekReset /\ ~SeekReset') => TickStep]_vars

\* a seek has ended a pass in which a voice had started, and its tick is
\* still to be processed
C12_Witness ==
  /\ prevStarted # {}
  /\ \A i \in Indices : passStarts[i] = 0
  /\ tickPending
  /\ SeekReset
  /\ stale # <<>>
  /\ vtime = 37

\* the end of the caption of segment i as the claims state it: the start of
\* the following segment, or the start of i plus 5.0 for the last segment
EffectiveEnd(i) ==
  IF (i + 1) \in Indices THEN segments[i + 1] ELSE segments[i] + 100

\* the segments with the greatest startTime <= t whose end lies after t
Resolvable(t) ==
  {i \in Indices :
     /\ segments[i] <= t
     /\ t < EffectiveEnd(i)
     /\ \A k \in Indices : segments[k] <= t => segments[k] <= segments[i]}

\* c is the caption the claims resolve at time t
Resolves(t, c) ==
  IF Resolvable(t) = {} THEN c = NoCaption ELSE c \in Resolvable(t)

\* C13: for segments sorted by startTime, the caption computed by a tick at
\* t is the text of the segment with the greatest startTime <= t provided
\* t < effectiveEnd, and none otherwise; with segments at 0.0 and 2.0 the
\* caption at 1.0 is that of segment 0 and at 7.0 it is none
C13_CaptionResolution ==
  [][CaptionTickAt(vtime') =>
       /\ Cardinality(Resolvable(vtime')) <= 1
       /\ Resolves(vtime', currentCaption')
       /\ (segments = ScenarioSegments /\ vtime' = 20) => currentCaption' = 0
       /\ (segments = ScenarioSegments /\ vtime' = 140) =>
            currentCaption' = NoCaption]_vars

\* with segments at 0.0 and 2.0, both passed, the tick at 7.0 has removed
\* the caption
C13_Witness ==
  /\ segments = ScenarioSegments
  /\ triggered = {0, 1}
  /\ currentTime = 140
  /\ currentCaption = NoCaption

\* C14: the caption shown equals the caption resolved at currentTime in
\* every state, whatever the playback, hold and export state; in particular
\* every step that sets currentTime, a tick or a seek, leaves the two
\* consistent
C14_CaptionConsistent ==
  [][(currentTime' # currentTime) => Resolves(currentTime', currentCaption')]_vars

\* C15: while the fetch/decode of any segment is outstanding no voice has
\* been started and no tick starts one, also for a segment whose own decode
\* has succeeded
C15_NoVoiceBeforeReady ==
  /\ [](settled # Indices =>
          (sources = <<>> /\ stale = <<>> /\ active = NoSegment /\ ~hold))
  /\ [][(settled # Indices /\ sources' # sources) => ~TickStep]_vars

\* a tick has landed in the window of a decoded segment while the load of
\* another segment is outstanding
C15_Witness ==
  /\ settled # Indices
  /\ ~vpaused
  /\ \E i \in buffers : i \in triggered /\ Due(i, vtime)

\* the segments whose fetch/decode has failed
Failed == settled \ buffers

\* C16: a segment whose fetch/decode failed never has a voice and is never
\* activeSegmentIndex; the failure leaves the load of the other segments to
\* complete with every decoded buffer published; and once the load has
\* completed, a tick in the window of a decoded segment not yet in
\* triggeredSet starts its voice, whatever segments have failed
C16_DecodeFailureIsolated ==
  /\ [](\A i \in Failed :
          /\ active # i
          /\ \A k \in DOMAIN sources : sources[k].index # i
          /\ \A k \in DOMAIN stale : stale[k].index # i)
  /\ [][(settled' # settled) =>
          /\ buffers \subseteq buffers'
          /\ settled' = Indices => (loaded' /\ audioBuffers' = buffers')]_vars
  /\ [][(Failed # {} /\ loaded /\ TickStep) =>
          \A j \in buffers :
            (Due(j, vtime') /\ j \notin triggered) =>
              (j \in Range(NewVoices) /\ j \in triggered')]_vars

\* the decode of segment 0 has failed, a tick has passed its window, and the
\* voice of segment 1 has started
C16_Witness ==
  /\ Failed = {0}
  /\ 0 \in triggered
  /\ active = 1
  /\ \E k \in DOMAIN sources : sources[k].index = 1

\* C17: whatever state the export was started from, the voices the export
\* pass has started are those of the same segments, in the same order, as a
\* live playback pass from time 0 with an empty triggered set that is given
\* the same ticks
C17_ExportAsLive ==
  /\ expLog = liveLog
  /\ recorder = "recording" => triggered = liveTriggered

\* an export started while voices were playing has started the voices of
\* segments 0 and 1
C17_Witness ==
  /\ recorder = "recording"
  /\ stale # <<>>
  /\ expLog = <<0, 1>>

\* C18: the recorder starts recording only when the segment store is Ready,
\* at least one segment is present and no export is in progress
C18_ExportPreconditions ==
  [][(recorder # "recording" /\ recorder' = "recording") =>
       (loaded /\ Indices # {} /\ ~isExporting)]_vars

\* the state a successful export start leaves behind
ExportFresh ==
  /\ recorder = "recording"
  /\ triggered = {}
  /\ sources = <<>>
  /\ active = NoSegment
  /\ ~hold
  /\ isPlaying
  /\ vtime = 0
  /\ ~vpaused

\* C19: the step that starts an export successfully leaves triggeredSet
\* empty, no voice active, activeSegmentIndex none, the hold cleared, play
\* intent true, the video at position 0 and playing and the capture
\* recording, and nothing but the first tick of the pass changes that
C19_ExportStartEffects ==
  /\ [][(recorder # "recording" /\ recorder' = "recording") => ExportFresh']_vars
  /\ [][(ExportFresh /\ ~ExportFresh') => TickStep]_vars

\* an export has been started mid-playback, with the ended event of a voice
\* it stopped outstanding, and the first tick of the pass is still to come
C19_Witness ==
  /\ ExportFresh
  /\ stale # <<>>
  /\ tickPending
  /\ currentTime > 0

\* the export has finished: the artifact is there, nothing is exporting or
\* recording, play intent is false, the video is at 0, progress is 0
ExportReady ==
  /\ recordedBlob
  /\ ~isExporting
  /\ ~isExportingRef
  /\ recorder = "inactive"
  /\ ~isPlaying
  /\ vtime = 0
  /\ exportProgress = 0

\* C20: when the video reports its end during an export, the ended event
\* stops the capture and sets play intent false, the recorder's stop event
\* then leaves the export READY with the artifact, the video at 0, progress
\* 0 and no export active, and that state is reached
C20_ExportCompletion ==
  /\ [][(endedPending /\ endedListener /\ ~endedPending') =>
          (recorder' = "stopping" /\ ~isPlaying' /\ vpaused')]_vars
  /\ [][(recorder = "stopping" /\ recorder' # "stopping") => ExportReady']_vars
  /\ (endedPending /\ endedListener) ~> ExportReady

\* an export pass has run to the end of the video and has finished, and no
\* tick has been processed since
C20_Witness ==
  /\ ExportReady
  /\ currentTime = Duration
  /\ triggered = {}

\* C21: a step in which the export start fails leaves no export active, no
\* recorder running, no artifact, play intent false and the video paused
C21_ExportFailureIdle ==
  [][(~isExporting /\ ~isExporting' /\ StartExport) =>
       /\ ~isExportingRef'
       /\ recorder' = "inactive"
       /\ ~orphan'
       /\ ~recordedBlob'
       /\ ~isPlaying'
       /\ vpaused']_vars

\* C22: under fairness every export pass that has started recording comes
\* to its end: the recorder does not stay recording forever
C22_ExportTerminates == (recorder = "recording") ~> (recorder = "inactive")

\* handleShareOrSave with outcome `share` of the share path leaves the stored
\* artifact as it is
KeepsArtifact(share) ==
  LET r == HandleShareOrSave(Cur, share)
  IN r.recordedBlob /\ r.blobType = blobType /\ r.blobChunks = blobChunks

\* handleShareOrSave with outcome `share` hands the stored artifact to the
\* path `how`
HandsOut(share, how) ==
  LET r == HandleShareOrSave(Cur, share)
  IN r.delivery.how = how /\ r.delivery.type = blobType /\ r.delivery.data = blobChunks

\* C23 as stated: whenever an artifact is stored, a delivery whose share
\* path is unavailable or fails with any error downloads the same artifact,
\* and every outcome leaves the stored artifact unchanged
C23_Original ==
  recordedBlob =>
    /\ \A share \in {"none", "abort", "error"} : HandsOut(share, "download")
    /\ \A share \in {"none", "ok", "abort", "error"} : KeepsArtifact(share)

\* C23 amended: a delivery whose share path is unavailable or fails with an
\* error other than the user's abort downloads the same artifact; when the
\* user aborts the share nothing is handed out; a share that succeeds hands
\* out the same artifact; every outcome leaves the stored artifact unchanged
C23_DeliveryFallback ==
  recordedBlob =>
    /\ \A share \in {"none", "error"} : HandsOut(share, "download")
    /\ HandsOut("ok", "share")
    /\ HandleShareOrSave(Cur, "abort").delivery.how = "abort"
    /\ \A share \in {"none", "ok", "abort", "error"} : KeepsArtifact(share)

\* an artifact built from recorded data has been downloaded and is still
\* stored
C23_Witness ==
  /\ recordedBlob
  /\ blobChunks # <<>>
  /\ delivery.how = "download"
  /\ delivery.data = blobChunks

\* the preference order of the output formats, most preferred first
Preference ==
  <<"video/mp4;codecs=avc1,mp4a.40.2", "video/mp4",
    "video/webm;codecs=vp9,opus", "video/webm">>

\* the first entry of the preference order from position k on that the
\* runtime supports, generic webm when there is none
RECURSIVE FirstSupported(_, _)
FirstSupported(sup, k) ==
  IF k > Len(Preference)
  THEN "video/webm"
  ELSE IF Preference[k] \in sup THEN Preference[k] ELSE FirstSupported(sup, k + 1)

\* the extension of the container family of a type
FamilyExt(type) ==
  IF type \in {"video/mp4;codecs=avc1,mp4a.40.2", "video/mp4"} THEN "mp4" ELSE "webm"

\* C24: for every set of formats the runtime supports, the type the running
\* recorder was given and the declared type of the stored and of the
\* delivered artifact are the first supported entry of the preference order
\* (generic webm when none is supported), and the delivered file's extension
\* is mp4 exactly when that type is of the mp4 family, otherwise webm
C24_FormatChoice ==
  LET choice == FirstSupported(supported, 1)
  IN /\ recorder = "recording" => mimeType = choice
     /\ recordedBlob => blobType = choice
     /\ delivery.how \in {"share", "download"} =>
          /\ delivery.type = choice
          /\ delivery.ext = FamilyExt(choice)

\* the events of a sequence of dataavailable events that carried data
NonEmpty(events) == SelectSeq(events, LAMBDA e : e.size > 0)

\* sequence a is b, or b with one more element appended
Extends(a, b) ==
  \/ a = b
  \/ Len(a) = Len(b) + 1 /\ SubSeq(a, 1, Len(b)) = b

\* C25: while the recorder of an export pass runs, the collected chunks are
\* exactly the non-empty data the recorder has handed over in this pass, in
\* arrival order, and the finished artifact is their concatenation; the
\* collection only grows by appending, except that a pass that starts its
\* recorder starts from an empty collection, so that no chunk of an earlier
\* pass is in a later artifact
C25_ArtifactChunks ==
  /\ [](/\ recorder \in {"recording", "stopping"} => chunks = NonEmpty(delivered)
        /\ recordedBlob => blobChunks = NonEmpty(delivered))
  /\ [][IF recorder = "inactive" /\ recorder' = "recording"
         THEN chunks' = <<>>
         ELSE Extends(chunks', chunks)]_vars

\* an artifact of one chunk is stored, built in a pass whose recorder handed
\* over an empty chunk and then a chunk with data
C25_Witness ==
  /\ recordedBlob
  /\ Len(delivered) = 2
  /\ delivered[1].size = 0
  /\ delivered[2].size > 0
  /\ blobChunks = <<delivered[2]>>

\* C26: the frame-draw loop is scheduled exactly while the export is active,
\* whether the video plays or is held; every frame step draws the video and
\* schedules the next one; and a frame step changes nothing of the engine
\* (video time, currentTime, play intent, triggered set, active segment,
\* hold, voices)
C26_FrameLoop ==
  /\ [](rafPending <=> isExportingRef)
  /\ [][Frame =>
          /\ frameDrawn'
          /\ rafPending'
          /\ UNCHANGED <<vtime, vpaused, currentTime, isPlaying, triggered,
                         active, hold, sources, stale>>]_vars

\* a frame has been drawn since the last tick while the export holds the
\* video for a voice
C26_Witness ==
  /\ isExportingRef
  /\ recorder = "recording"
  /\ hold
  /\ vpaused
  /\ frameDrawn

\* the step delivers the ended event of a voice other than the most recently
\* started one
OlderVoiceEnds ==
  \/ StaleEnded
  \/ /\ VoiceEnded
     /\ sources' # SubSeq(sources, 1, Len(sources) - 1)

\* C27: whenever activeSegmentIndex is set, a voice is playing and the most
\* recently started one is the voice of that segment, also after a tick that
\* started several voices; and the ended event of any other voice leaves
\* activeSegmentIndex as it is
C27_ActiveIsLatest ==
  /\ [](active # NoSegment =>
          /\ sources # <<>>
          /\ sources[Len(sources)].index = active)
  /\ [][OlderVoiceEnds => active' = active]_vars

\* the integer nearest to 100 * time / Duration, a half rounded up
Nearest(time) ==
  CHOOSE p \in 0..100 :
    /\ 2 * Duration * p - Duration <= 200 * time
    /\ 200 * time < 2 * Duration * p + Duration

\* C28: exportProgress is always an integer in 0..100; a tick while the
\* export is active sets it to 100 * currentTime / duration rounded to the
\* nearest integer, a tick while no export is active leaves it as it is, and
\* the completion of the export resets it to 0
C28_ExportProgress ==
  /\ [](exportProgress \in 0..100)
  /\ [][TickStep =>
          /\ currentTime' = vtime'
          /\ exportProgress' =
               IF isExporting THEN Nearest(currentTime') ELSE exportProgress]_vars
  /\ [][~recordedBlob /\ recordedBlob' => exportProgress' = 0]_vars

\* a tick in the middle of an export has set the progress to a percentage
\* that is rounded up
C28_Witness ==
  /\ isExporting
  /\ recorder = "recording"
  /\ currentTime = 37
  /\ exportProgress * Duration > 100 * currentTime
  /\ exportProgress < 100

\* C29: no tick starts the voices of two segments that have the same start
\* time
C29_NoTieRace ==
  [][TickStep =>
       \A j, k \in DOMAIN NewVoices :
         j # k => segments[NewVoices[j]] # segments[NewVoices[k]]]_vars

\* C30: with every segment decoded, start times at least 0.3 s apart and
\* timeupdates less than 0.2 s apart, no tick starts the voice of segment
\* i + 1 while a voice of segment i is still playing
C30_NoCutIn ==
  [][(audioBuffers = Indices /\ sources # <<>> /\ TickStep) =>
       \A k \in DOMAIN NewVoices :
         \A j \in DOMAIN sources : sources[j].index # NewVoices[k] - 1]_vars

\* C31: a tick that arrives while the play intent is false starts no voice
\* and adds no segment to triggeredSet
C31_IdleTickInert ==
  [][(~isPlaying /\ TickStep) =>
       /\ NewVoices = <<>>
       /\ triggered' = triggered]_vars

\* C32: whenever the play intent is true, the engine is not holding and the
\* video has not reached its end, the video transport is playing
C32_NoStuckTransport ==
  (isPlaying /\ ~hold /\ ~endedPending /\ vtime # Duration) => ~vpaused

\* C33: whenever the engine is holding, the video transport is paused and
\* the play intent is true
C33_HoldMeansPausedPlaying == hold => (vpaused /\ isPlaying)

\* the engine holds the video for the voice of segment 0, which is playing,
\* before the start of segment 1
C33_Witness ==
  /\ hold
  /\ active = 0
  /\ \E k \in DOMAIN sources : sources[k].index = 0
  /\ vtime < segments[1]

\* C34: within one pass, every segment whose audio has been decoded and whose
\* window has contained a delivered tick (it is in triggeredSet) has had its
\* voice started in that pass
C34_NoLostTrigger ==
  \A i \in buffers : i \in triggered => passStarts[i] >= 1

\* C35: the capture of an export pass is never stopped while a voice is
\* playing, and the step that stops it force-stops no voice
C35_NarrationComplete ==
  [][(recorder = "recording" /\ recorder' # "recording") =>
       (sources = <<>> /\ stale' = stale)]_vars

\* C36: an export is never active while a finished artifact is present; the
\* export start handler leaves no artifact, whatever its outcome, also when
\* run on a state that has one; a seek discards the artifact; and an artifact
\* appears only in the stop event of the recorder, while the export is
\* active, with the type that recorder was given
C36_ExportExclusive ==
  /\ [](/\ ~(isExporting /\ recordedBlob)
        /\ \A outcome \in {"ok", "noctx", "throw", "playrejected"} :
             ~HandleStartExport(Cur, outcome).recordedBlob)
  /\ [][(~isExporting /\ isExporting') => ~recordedBlob']_vars
  /\ [][(recordedBlob /\ Seek) => (~recordedBlob' /\ ~isExporting')]_vars
  /\ [][(~recordedBlob /\ recordedBlob') =>
          /\ isExporting /\ ~isExporting'
          /\ recorder = "stopping" /\ recorder' = "inactive"
          /\ blobType' = mimeType]_vars

\* the recorder of an export has stopped and its artifact is present, no
\* export is active, and the tick of the rewind to 0 has been processed
C36_Witness ==
  /\ recordedBlob
  /\ blobType # NoType
  /\ ~isExporting
  /\ ~isExportingRef
  /\ recorder = "inactive"
  /\ ~tickPending
  /\ currentTime = 0
\* C37: whenever the App shows the player (COMPLETED, a preview URL and a
\* non-empty segment list), the segments are those generated from the
\* currently selected video file, also when another file was selected
\* while the request was in flight.
C37_SegmentsOfSelectedFile ==
  (appState = "COMPLETED" /\ videoPreviewUrl # NoFile /\ dubbingSegments # <<>>)
    => (shownFrom = videoFile /\ videoPreviewUrl = videoFile)

\* a text that is empty or made of white space only
Blank(text) == \A k \in DOMAIN text : text[k] = " "

\* the audio requests of the call that succeeded, in the order they settled
Succeeded == SelectSeq(audioLog, LAMBDA e : e.ok)

\* C38: timeline generation tolerates partial failure: lines with empty
\* text are never sent to audio generation; audio is requested one line at
\* a time, in script order; a failed request does not keep the later lines
\* from being requested; the list returned holds exactly the successful
\* lines, in script order; and the call ends with an error exactly when
\* the script is empty or no line's audio succeeded.
C38_PartialFailure ==
  /\ Cardinality(call.inFlight) <= 1
  /\ \A k \in DOMAIN audioLog : ~Blank(call.raw[audioLog[k].n].text)
  /\ \A n \in call.inFlight : ~Blank(call.raw[n].text)
  /\ \A j, k \in DOMAIN audioLog : j < k => audioLog[j].n < audioLog[k].n
  /\ \A n \in call.inFlight : \A k \in DOMAIN audioLog : audioLog[k].n < n
  /\ (call.stage = "done" /\ call.raw # <<>>)
       => \A n \in DOMAIN call.raw :
            ~Blank(call.raw[n].text) => \E k \in DOMAIN audioLog : audioLog[k].n = n
  /\ Len(call.processed) = Len(Succeeded)
  /\ \A k \in DOMAIN call.processed :
       /\ call.processed[k].audioUrl = Succeeded[k].n
       /\ call.processed[k].text = call.raw[Succeeded[k].n].text
  /\ call.stage = "done"
       => /\ call.result \in {"list", "error"}
          /\ call.result = "error" <=> (call.raw = <<>> \/ Succeeded = <<>>)

\* a call that returned a list after its first audio request had failed
C38_Witness ==
  /\ call.stage = "done"
  /\ call.result = "list"
  /\ Len(audioLog) = 2
  /\ ~audioLog[1].ok
  /\ audioLog[2].ok
  /\ Len(call.processed) = 1

====
